---- MODULE Spec2Model ----
(***************************************************************************)
(* A model of the HRV analytics pipeline of neuroheart-hrv-api:            *)
(*   get_heart_rate_data -> HRVProcessor.process ->                        *)
(*   HRVFeatureExtractor.process_windows -> compute_hrv_for_range          *)
(*   (resample, summary, WeeklyAnalyzer.create_weekly_summary).            *)
(* and of the hour-of-day route hrv_by_range, which runs the same pipeline *)
(* once per calendar day of the requested range.                           *)
(*                                                                         *)
(* A timestamp is an instant in minutes, aware of the display timezone     *)
(* America/New_York (db.py converts every timestamp to it once): from June *)
(* 2026 to the end of daylight time on 1 November it reads as the wall     *)
(* clock, from then on to 14 March 2027 the wall clock is one hour behind  *)
(* it, and after that it reads as the wall clock again.  A float           *)
(* is a triple <<kind, n, d>>: the rational n/d ("fin"), IEEE +infinity    *)
(* ("inf") or NaN ("nan"); Python's None is the kind "null".               *)
(***************************************************************************)
EXTENDS Integers, Sequences, FiniteSets, TLC

VARIABLES pc, df_raw, df_windows, df_hrv, failures, response,
          request, current, days_output, fetches

vars == <<pc, df_raw, df_windows, df_hrv, failures, response,
          request, current, days_output, fetches>>

(***************************************************************************)
(* Floats                                                                  *)
(***************************************************************************)
NaN == <<"nan", 0, 1>>
Inf == <<"inf", 0, 1>>
None == <<"null", 0, 1>>

Abs(x) == IF x < 0 THEN -x ELSE x

RECURSIVE GCD(_, _)
GCD(a, b) == IF b = 0 THEN a ELSE GCD(b, a % b)

\* the rational n/d (d > 0) in lowest terms
Fin(n, d) ==
    LET g == GCD(Abs(n), d)
    IN  IF n = 0 THEN <<"fin", 0, 1>> ELSE <<"fin", n \div g, d \div g>>

Num(n) == <<"fin", n, 1>>

IsNaN(v) == v[1] = "nan"
IsInf(v) == v[1] = "inf"
IsFin(v) == v[1] = "fin"

\* IEEE addition on the values the pipeline produces (no -inf arises)
FAdd(a, b) ==
    IF IsNaN(a) \/ IsNaN(b) THEN NaN
    ELSE IF IsInf(a) \/ IsInf(b) THEN Inf
    ELSE Fin(a[2] * b[3] + b[2] * a[3], a[3] * b[3])

\* a / k for an integer k > 0
FDivInt(a, k) == IF IsFin(a) THEN Fin(a[2], a[3] * k) ELSE a

\* a < b on non-NaN values
FLess(a, b) ==
    IF IsInf(a) THEN FALSE
    ELSE IF IsInf(b) THEN TRUE
    ELSE a[2] * b[3] < b[2] * a[3]

RECURSIVE FSum(_)
FSum(s) == IF s = <<>> THEN Num(0) ELSE FAdd(Head(s), FSum(Tail(s)))

NotNaN(v) == ~IsNaN(v)

\* pandas' mean(): NaN entries are skipped, no entry left gives NaN
Mean(s) ==
    LET kept == SelectSeq(s, NotNaN)
    IN  IF kept = <<>> THEN NaN ELSE FDivInt(FSum(kept), Len(kept))

\* set -> ascending sequence of integers
RECURSIVE SortedSeq(_)
SortedSeq(S) ==
    IF S = {} THEN <<>>
    ELSE LET m == CHOOSE x \in S : \A y \in S : x <= y
         IN  <<m>> \o SortedSeq(S \ {m})

(***************************************************************************)
(* Calendar of 2026 and the clock of America/New_York                      *)
(***************************************************************************)
MinutesPerDay == 24 * 60

MonthLengths == <<31, 28, 31, 30, 31, 30, 31, 31, 30, 31, 30, 31>>

RECURSIVE DaysBeforeMonth(_)
DaysBeforeMonth(m) == IF m = 1 THEN 0 ELSE MonthLengths[m - 1] + DaysBeforeMonth(m - 1)

\* the minute month/day hour:minute of 2026, counted from 1 January 00:00
At(month, day, hh, mm) == (DaysBeforeMonth(month) + day - 1) * MinutesPerDay + hh * 60 + mm

\* the day number of a wall-clock minute
DayOf(w) == w \div MinutesPerDay

MonthOfDay(d) == CHOOSE m \in 1..12 : DaysBeforeMonth(m) <= d /\ d < DaysBeforeMonth(m) + MonthLengths[m]

\* <<year, month, day of month>> of a day number
YMD(d) == LET m == MonthOfDay(d) IN <<2026, m, d - DaysBeforeMonth(m) + 1>>

\* the instant 2026-11-01 02:00 EDT, at which the wall clock goes back to 01:00
FallBack == At(11, 1, 2, 0)

\* the instant 2027-03-14 02:00 EST, at which the wall clock goes on to 03:00
SpringForward == (365 + DaysBeforeMonth(3) + 13) * MinutesPerDay + 3 * 60

\* the wall-clock minute that instant t shows
Wall(t) == IF t < FallBack \/ t >= SpringForward THEN t ELSE t - 60

\* the instant at which the wall clock shows midnight w (no midnight is repeated
\* or skipped)
Localize(w) == IF w < FallBack \/ w >= SpringForward THEN w ELSE w + 60

\* Series.dt.date, as a day number
date(t) == DayOf(Wall(t))

\* Series.dt.hour
hour(t) == (Wall(t) % MinutesPerDay) \div 60

\* Series.dt.dayofweek, Monday = 0; 2026-01-01 is a Thursday
dayofweek(t) == (3 + date(t)) % 7

(***************************************************************************)
(* HRVProcessor                                                            *)
(***************************************************************************)
window_size_minutes == 15

\* 60000 / bpm on a float column: division by zero gives +inf, not an error
calculate_ibi(df) ==
    [i \in 1..Len(df) |->
        [timestamp |-> df[i].timestamp,
         bpm       |-> df[i].bpm,
         ibi_ms    |-> IF IsNaN(df[i].bpm) THEN NaN
                       ELSE IF df[i].bpm[2] = 0 THEN Inf
                       ELSE Fin(60000 * df[i].bpm[3], df[i].bpm[2])]]

\* the values of column col of the rows of df stamped in minute m, in row order
RECURSIVE ColumnAt(_, _, _)
ColumnAt(df, col, m) ==
    IF df = <<>> THEN <<>>
    ELSE (IF Head(df).timestamp = m THEN <<Head(df)[col]>> ELSE <<>>)
         \o ColumnAt(Tail(df), col, m)

\* df[cols].resample('1min').mean(): one row per minute from the first to the last sample
Resample1Min(df) ==
    LET first == df[1].timestamp
        last  == df[Len(df)].timestamp
    IN  [k \in 1..(last - first + 1) |->
            [timestamp |-> first + k - 1,
             bpm       |-> Mean(ColumnAt(df, "bpm", first + k - 1)),
             ibi_ms    |-> Mean(ColumnAt(df, "ibi_ms", first + k - 1))]]

\* linear interpolation between the known points (p, a) and (q, b) at x (numpy.interp)
Lerp(p, a, q, b, x) ==
    IF IsInf(a) \/ IsInf(b) THEN Inf
    ELSE FAdd(a, Fin((b[2] * a[3] - a[2] * b[3]) * (x - p), a[3] * b[3] * (q - p)))

\* Series.interpolate(method='time'): a gap is filled from its two known neighbours
\* by time, a trailing gap with the last known value, a leading gap stays NaN
Interpolate(rows) ==
    LET known == {k \in 1..Len(rows) : ~IsNaN(rows[k].ibi_ms)}
    IN  [k \in 1..Len(rows) |->
            IF k \in known THEN rows[k]
            ELSE LET before == {j \in known : j < k}
                     after  == {j \in known : j > k}
                 IN  IF before = {} THEN rows[k]
                     ELSE LET p == CHOOSE j \in before : \A i \in before : i <= j
                          IN  IF after = {} THEN [rows[k] EXCEPT !.ibi_ms = rows[p].ibi_ms]
                              ELSE LET q == CHOOSE j \in after : \A i \in after : j <= i
                                   IN  [rows[k] EXCEPT !.ibi_ms =
                                           Lerp(rows[p].timestamp, rows[p].ibi_ms,
                                                rows[q].timestamp, rows[q].ibi_ms,
                                                rows[k].timestamp)]]

WindowStart(t) == t - (t % window_size_minutes)

InWindow(rows, w) == SelectSeq(rows, LAMBDA r : WindowStart(r.timestamp) = w)

Column(rows, col) == [k \in 1..Len(rows) |-> rows[k][col]]

\* df_1min.resample('15min').agg({'bpm': 'mean', 'ibi_ms': list}).reset_index()
ResampleWindows(df_1min) ==
    LET w0 == WindowStart(df_1min[1].timestamp)
        w1 == WindowStart(df_1min[Len(df_1min)].timestamp)
    IN  [k \in 1..((w1 - w0) \div window_size_minutes + 1) |->
            LET w == w0 + (k - 1) * window_size_minutes
            IN  [timestamp |-> w,
                 bpm       |-> Mean(Column(InWindow(df_1min, w), "bpm")),
                 ibi_ms    |-> Column(InWindow(df_1min, w), "ibi_ms")]]

HasValues(row) == Len(row.ibi_ms) > 0

\* the rows with a non-empty list are kept, and then the NaN entries leave the lists
resample_to_windows(df) ==
    LET df_1min == Interpolate(Resample1Min(df))
        kept    == SelectSeq(ResampleWindows(df_1min), HasValues)
    IN  [k \in 1..Len(kept) |->
            [kept[k] EXCEPT !.ibi_ms = SelectSeq(kept[k].ibi_ms, NotNaN)]]

process(df) == resample_to_windows(calculate_ibi(df))

(***************************************************************************)
(* HRVFeatureExtractor.  The hrvanalysis library is outside the            *)
(* repository: what it returns for finite input is a fixed function of the *)
(* length of the list (windows of different lengths get different values), *)
(* and what it returns for NaN or infinite input follows IEEE arithmetic   *)
(* (a NaN poisons every statistic, inf - inf is NaN, 60000 / inf is 0).    *)
(***************************************************************************)
low_rri == 300

high_rri == 2000

Groups == {"time", "frequency", "nonlinear"}

HasNaN(rr) == \E k \in 1..Len(rr) : IsNaN(rr[k])
HasInf(rr) == \E k \in 1..Len(rr) : IsInf(rr[k])

\* hrvanalysis.remove_outliers: a value outside [low_rri, high_rri] becomes NaN
remove_outliers(rr) ==
    [k \in 1..Len(rr) |->
        IF IsFin(rr[k]) /\ ~FLess(rr[k], Num(low_rri)) /\ ~FLess(Num(high_rri), rr[k])
        THEN rr[k] ELSE NaN]

\* Malik's rule: the next interval is kept when it differs from this one by at
\* most 20% of this one (a comparison with NaN is false)
WithinMalik(a, b) ==
    IsFin(a) /\ IsFin(b) /\ 5 * Abs(a[2] * b[3] - b[2] * a[3]) <= a[2] * b[3]

\* the intervals after interval i, as remove_ectopic_beats leaves them
RECURSIVE MalikFrom(_, _, _)
MalikFrom(rr, i, previous_outlier) ==
    IF i >= Len(rr) THEN <<>>
    ELSE IF previous_outlier THEN <<rr[i + 1]>> \o MalikFrom(rr, i + 1, FALSE)
    ELSE IF WithinMalik(rr[i], rr[i + 1]) THEN <<rr[i + 1]>> \o MalikFrom(rr, i + 1, FALSE)
    ELSE <<NaN>> \o MalikFrom(rr, i + 1, TRUE)

\* hrvanalysis.remove_ectopic_beats(method="malik"): an ectopic beat becomes NaN
remove_ectopic_beats(rr) == <<rr[1]>> \o MalikFrom(rr, 1, FALSE)

clean_rr_intervals(rr) ==
    IF Len(rr) < 10 THEN rr
    ELSE LET rr_clean == remove_outliers(rr)
         IN  IF Len(rr_clean) >= 10 THEN remove_ectopic_beats(rr_clean)
             ELSE rr_clean

_empty_time_features == [rmssd |-> NaN, sdnn |-> NaN, mean_hr |-> NaN]

_empty_frequency_features == [lf_hf_ratio |-> NaN]

_empty_nonlinear_features == [sd1 |-> NaN]

\* What hrvanalysis returns for finite intervals is a function of the intervals
\* alone; the model fixes one that tells windows of different lengths apart.
TimeValues(rr) ==
    [rmssd |-> Num(20 + Len(rr)), sdnn |-> Num(30 + 2 * Len(rr)), mean_hr |-> Num(60 + Len(rr))]

FrequencyValues(rr) == [lf_hf_ratio |-> Fin(Len(rr), 10)]

NonlinearValues(rr) == [sd1 |-> Num(Len(rr))]

\* hrvanalysis.get_time_domain_features
get_time_domain_features(rr) ==
    IF HasNaN(rr) THEN _empty_time_features
    ELSE IF HasInf(rr)
    THEN [rmssd   |-> IF \E k \in 1..(Len(rr) - 1) : IsInf(rr[k]) /\ IsInf(rr[k + 1])
                      THEN NaN ELSE Inf,
          sdnn    |-> NaN,
          mean_hr |-> TimeValues(rr).mean_hr]
    ELSE TimeValues(rr)

\* hrvanalysis.get_frequency_domain_features
get_frequency_domain_features(rr) ==
    IF HasNaN(rr) THEN _empty_frequency_features ELSE FrequencyValues(rr)

\* hrvanalysis.get_poincare_plot_features
get_poincare_plot_features(rr) ==
    IF HasNaN(rr) THEN _empty_nonlinear_features ELSE NonlinearValues(rr)

\* raised: whether the library call raised
extract_time_domain(rr, raised) ==
    IF Len(rr) < 2 THEN _empty_time_features
    ELSE IF raised THEN _empty_time_features ELSE get_time_domain_features(rr)

\* the frequency group with its threshold one value lower
extract_frequency_domain_from_nine(rr, raised) ==
    IF Len(rr) < 9 THEN _empty_frequency_features
    ELSE IF raised THEN _empty_frequency_features ELSE get_frequency_domain_features(rr)

extract_frequency_domain(rr, raised) ==
    IF Len(rr) < 10 THEN _empty_frequency_features
    ELSE IF raised THEN _empty_frequency_features ELSE get_frequency_domain_features(rr)

extract_nonlinear(rr, raised) ==
    IF Len(rr) < 10 THEN _empty_nonlinear_features
    ELSE IF raised THEN _empty_nonlinear_features ELSE get_poincare_plot_features(rr)

\* the groups whose library call is made at all
Called(rr) ==
    (IF Len(rr) < 2 THEN {} ELSE {"time"})
    \cup (IF Len(rr) < 10 THEN {} ELSE {"frequency", "nonlinear"})

\* one try block around the three groups: any failure empties them all
extract_all_features_shared_try(rr_intervals, raised) ==
    LET rr_clean           == clean_rr_intervals(rr_intervals)
        time_features      == extract_time_domain(rr_clean, raised # {})
        freq_features      == extract_frequency_domain(rr_clean, raised # {})
        nonlinear_features == extract_nonlinear(rr_clean, raised # {})
    IN  [rmssd            |-> time_features.rmssd,
         sdnn             |-> time_features.sdnn,
         mean_hr          |-> time_features.mean_hr,
         lf_hf_ratio      |-> freq_features.lf_hf_ratio,
         sd1              |-> nonlinear_features.sd1,
         num_rr_intervals |-> Len(rr_clean),
         num_removed      |-> Len(rr_intervals) - Len(rr_clean)]

extract_all_features(rr_intervals, raised) ==
    LET rr_clean           == clean_rr_intervals(rr_intervals)
        time_features      == extract_time_domain(rr_clean, "time" \in raised)
        freq_features      == extract_frequency_domain(rr_clean, "frequency" \in raised)
        nonlinear_features == extract_nonlinear(rr_clean, "nonlinear" \in raised)
    IN  [rmssd            |-> time_features.rmssd,
         sdnn             |-> time_features.sdnn,
         mean_hr          |-> time_features.mean_hr,
         lf_hf_ratio      |-> freq_features.lf_hf_ratio,
         sd1              |-> nonlinear_features.sd1,
         num_rr_intervals |-> Len(rr_clean),
         num_removed      |-> Len(rr_intervals) - Len(rr_clean)]

WithTimestamp(features, timestamp) ==
    [timestamp        |-> timestamp,
     rmssd            |-> features.rmssd,
     sdnn             |-> features.sdnn,
     mean_hr          |-> features.mean_hr,
     lf_hf_ratio      |-> features.lf_hf_ratio,
     sd1              |-> features.sd1,
     num_rr_intervals |-> features.num_rr_intervals,
     num_removed      |-> features.num_removed]

(***************************************************************************)
(* WeeklyAnalyzer                                                          *)
(***************************************************************************)
weekday_names ==
    <<"Monday", "Tuesday", "Wednesday", "Thursday", "Friday", "Saturday", "Sunday">>

FSub(a, b) == Fin(a[2] * b[3] - b[2] * a[3], a[3] * b[3])

FMul(a, b) == Fin(a[2] * b[2], a[3] * b[3])

\* the square of pandas' std() (ddof = 1): NaN entries are skipped, fewer than two
\* entries give NaN, and so does an infinite entry (inf - inf)
StdSquared(s) ==
    LET kept == SelectSeq(s, NotNaN)
        m    == Mean(kept)
    IN  IF Len(kept) < 2 \/ HasInf(kept) THEN NaN
        ELSE FDivInt(FSum([k \in 1..Len(kept) |-> FMul(FSub(kept[k], m), FSub(kept[k], m))]),
                     Len(kept) - 1)

\* pandas' min() and max(): NaN entries are skipped
Min(s) ==
    LET kept == SelectSeq(s, NotNaN)
    IN  IF kept = <<>> THEN NaN
        ELSE kept[CHOOSE k \in 1..Len(kept) : \A j \in 1..Len(kept) : ~FLess(kept[j], kept[k])]

Max(s) ==
    LET kept == SelectSeq(s, NotNaN)
    IN  IF kept = <<>> THEN NaN
        ELSE kept[CHOOSE k \in 1..Len(kept) : \A j \in 1..Len(kept) : ~FLess(kept[k], kept[j])]

Count(s) == Len(SelectSeq(s, NotNaN))

prepare_temporal_features(hrv) ==
    [k \in 1..Len(hrv) |->
        [timestamp    |-> hrv[k].timestamp,
         rmssd        |-> hrv[k].rmssd,
         sdnn         |-> hrv[k].sdnn,
         mean_hr      |-> hrv[k].mean_hr,
         lf_hf_ratio  |-> hrv[k].lf_hf_ratio,
         hour         |-> hour(hrv[k].timestamp),
         weekday      |-> dayofweek(hrv[k].timestamp),
         weekday_name |-> weekday_names[dayofweek(hrv[k].timestamp) + 1],
         date         |-> date(hrv[k].timestamp),
         is_weekend   |-> dayofweek(hrv[k].timestamp) \in {5, 6}]]

\* the rows of df whose column key holds v, in row order
Where(df, key, v) == SelectSeq(df, LAMBDA r : r[key] = v)

\* the keys of a groupby: the values of the column, ascending
GroupKeys(df, key) == SortedSeq({df[k][key] : k \in 1..Len(df)})

get_hourly_patterns(hrv) ==
    LET df    == prepare_temporal_features(hrv)
        hours == GroupKeys(df, "hour")
    IN  [k \in 1..Len(hours) |->
            LET g == Where(df, "hour", hours[k])
            IN  [hour             |-> hours[k],
                 rmssd_mean       |-> Mean(Column(g, "rmssd")),
                 rmssd_std        |-> StdSquared(Column(g, "rmssd")),
                 rmssd_min        |-> Min(Column(g, "rmssd")),
                 rmssd_max        |-> Max(Column(g, "rmssd")),
                 rmssd_count      |-> Count(Column(g, "rmssd")),
                 sdnn_mean        |-> Mean(Column(g, "sdnn")),
                 sdnn_std         |-> StdSquared(Column(g, "sdnn")),
                 mean_hr_mean     |-> Mean(Column(g, "mean_hr")),
                 mean_hr_std      |-> StdSquared(Column(g, "mean_hr")),
                 lf_hf_ratio_mean |-> Mean(Column(g, "lf_hf_ratio")),
                 lf_hf_ratio_std  |-> StdSquared(Column(g, "lf_hf_ratio"))]]

\* whether row a sorts strictly before row b by column col; NaN sorts last
Before(a, b, col, ascending) ==
    IF IsNaN(a[col]) THEN FALSE
    ELSE IF IsNaN(b[col]) THEN TRUE
    ELSE IF ascending THEN FLess(a[col], b[col]) ELSE FLess(b[col], a[col])

\* x put into the sorted rows behind every row it does not sort before
RECURSIVE InsertRow(_, _, _, _)
InsertRow(rows, x, col, ascending) ==
    IF rows = <<>> THEN <<x>>
    ELSE IF Before(x, Head(rows), col, ascending) THEN <<x>> \o rows
    ELSE <<Head(rows)>> \o InsertRow(Tail(rows), x, col, ascending)

\* the rows in key order, rows with equal keys in their order in rows
RECURSIVE StableSort(_, _, _)
StableSort(rows, col, ascending) ==
    IF rows = <<>> THEN <<>>
    ELSE InsertRow(StableSort(SubSeq(rows, 1, Len(rows) - 1), col, ascending),
                   rows[Len(rows)], col, ascending)

\* two rows hold the same number in column col
HasTies(rows, col) ==
    \E i, j \in 1..Len(rows) :
        i < j /\ ~IsNaN(rows[i][col]) /\ rows[i][col] = rows[j][col]

\* the rows whose column col is NaN, in row order
NaNRows(rows, col) == SelectSeq(rows, LAMBDA r : IsNaN(r[col]))

\* DataFrame.sort_values(col), kind = 'quicksort' (the default): the frames the
\* call can return.  The rows come in key order with the NaN rows last, in
\* their original order; quicksort is not stable, so rows with equal keys
\* come in any order.
sort_values(rows, col, ascending) ==
    IF ~HasTies(rows, col) THEN {StableSort(rows, col, ascending)}
    ELSE {sorted \in {StableSort([k \in 1..Len(rows) |-> rows[p[k]]], col, ascending) :
                         p \in Permutations(1..Len(rows))} :
             NaNRows(sorted, col) = NaNRows(rows, col)}

\* DataFrame.head(n)
head(rows, n) == SubSeq(rows, 1, IF Len(rows) < n THEN Len(rows) ELSE n)

top_n == 5

\* df.groupby('hour')['rmssd'].mean().reset_index()
HourlyAvg(df) ==
    LET hours == GroupKeys(df, "hour")
    IN  [k \in 1..Len(hours) |->
            [hour |-> hours[k], rmssd |-> Mean(Column(Where(df, "hour", hours[k]), "rmssd"))]]

RenameAvg(rows) == [k \in 1..Len(rows) |-> [hour |-> rows[k].hour, avg_rmssd |-> rows[k].rmssd]]

\* the frames get_best_hrv_hours can return
get_best_hrv_hours(hrv) ==
    {RenameAvg(head(hourly_avg, top_n)) :
        hourly_avg \in sort_values(HourlyAvg(prepare_temporal_features(hrv)), "rmssd", FALSE)}

\* the frames get_worst_hrv_hours can return
get_worst_hrv_hours(hrv) ==
    {RenameAvg(head(hourly_avg, top_n)) :
        hourly_avg \in sort_values(HourlyAvg(prepare_temporal_features(hrv)), "rmssd", TRUE)}

\* the weekdays (0..6) that have rows
WeekdaysPresent(df) == {df[k].weekday : k \in 1..Len(df)}

\* Series.idxmax(): the first row holding the maximum of the non-NaN values; no
\* such row when every value is NaN (0 here)
IdxMax(rows) ==
    LET ok == {k \in 1..Len(rows) : ~IsNaN(rows[k].rmssd)}
    IN  IF ok = {} THEN 0
        ELSE CHOOSE k \in ok :
                /\ \A j \in ok : ~FLess(rows[k].rmssd, rows[j].rmssd)
                /\ \A j \in ok : j < k => FLess(rows[j].rmssd, rows[k].rmssd)

IdxMin(rows) ==
    LET ok == {k \in 1..Len(rows) : ~IsNaN(rows[k].rmssd)}
    IN  IF ok = {} THEN 0
        ELSE CHOOSE k \in ok :
                /\ \A j \in ok : ~FLess(rows[j].rmssd, rows[k].rmssd)
                /\ \A j \in ok : j < k => FLess(rows[k].rmssd, rows[j].rmssd)

\* int(best_hour) raises ValueError when idxmax found no row: a weekday whose
\* hourly RMSSD means are all NaN
PerWeekdayRaises(hrv) ==
    LET df == prepare_temporal_features(hrv)
    IN  \E weekday \in WeekdaysPresent(df) :
            IdxMax(HourlyAvg(Where(df, "weekday", weekday))) = 0

get_best_hrv_hours_per_weekday(hrv) ==
    LET df == prepare_temporal_features(hrv)
    IN  [name \in {weekday_names[w + 1] : w \in WeekdaysPresent(df)} |->
            LET rows == HourlyAvg(Where(df, "weekday_name", name))
            IN  [hour      |-> rows[IdxMax(rows)].hour,
                 avg_rmssd |-> Max(Column(rows, "rmssd"))]]

get_worst_hrv_hours_per_weekday(hrv) ==
    LET df == prepare_temporal_features(hrv)
    IN  [name \in {weekday_names[w + 1] : w \in WeekdaysPresent(df)} |->
            LET rows == HourlyAvg(Where(df, "weekday_name", name))
            IN  [hour      |-> rows[IdxMin(rows)].hour,
                 avg_rmssd |-> Min(Column(rows, "rmssd"))]]

\* row k gets k in column col
WithRank(rows, k, rank) ==
    [weekday      |-> rows[k].weekday,
     weekday_name |-> rows[k].weekday_name,
     rmssd        |-> rows[k].rmssd,
     mean_hr      |-> rows[k].mean_hr,
     lf_hf_ratio  |-> rows[k].lf_hf_ratio,
     stress_rank  |-> rank]

\* the ranking with the sort direction reversed
get_most_stressful_weekdays_descending(hrv) ==
    LET df   == prepare_temporal_features(hrv)
        days == GroupKeys(df, "weekday")
        weekday_stats ==
            [k \in 1..Len(days) |->
                LET g == Where(df, "weekday", days[k])
                IN  [weekday      |-> days[k],
                     weekday_name |-> weekday_names[days[k] + 1],
                     rmssd        |-> Mean(Column(g, "rmssd")),
                     mean_hr      |-> Mean(Column(g, "mean_hr")),
                     lf_hf_ratio  |-> Mean(Column(g, "lf_hf_ratio"))]]
    IN  {[k \in 1..Len(sorted) |-> WithRank(sorted, k, k)] :
            sorted \in sort_values(weekday_stats, "rmssd", FALSE)}

\* the frames get_most_stressful_weekdays can return
get_most_stressful_weekdays(hrv) ==
    LET df   == prepare_temporal_features(hrv)
        days == GroupKeys(df, "weekday")
        weekday_stats ==
            [k \in 1..Len(days) |->
                LET g == Where(df, "weekday", days[k])
                IN  [weekday      |-> days[k],
                     weekday_name |-> weekday_names[days[k] + 1],
                     rmssd        |-> Mean(Column(g, "rmssd")),
                     mean_hr      |-> Mean(Column(g, "mean_hr")),
                     lf_hf_ratio  |-> Mean(Column(g, "lf_hf_ratio"))]]
    IN  {[k \in 1..Len(sorted) |-> WithRank(sorted, k, k)] :
            sorted \in sort_values(weekday_stats, "rmssd", TRUE)}

difficulty_labels == <<"Hardest", "Hard", "Medium", "Easy", "Easiest">>

IsWorkday(r) == r.weekday < 5

\* the labels taken from the easy end of the vocabulary
get_workweek_difficulty_last_labels(hrv) ==
    LET df       == prepare_temporal_features(hrv)
        workweek == SelectSeq(df, IsWorkday)
        days     == GroupKeys(workweek, "weekday")
        workweek_stats ==
            [k \in 1..Len(days) |->
                LET g == Where(workweek, "weekday", days[k])
                IN  [weekday      |-> days[k],
                     weekday_name |-> weekday_names[days[k] + 1],
                     rmssd        |-> Mean(Column(g, "rmssd")),
                     mean_hr      |-> Mean(Column(g, "mean_hr")),
                     sdnn         |-> Mean(Column(g, "sdnn"))]]
    IN  IF Len(workweek) = 0 THEN {<<>>}
        ELSE {[k \in 1..Len(sorted) |->
                [weekday          |-> sorted[k].weekday,
                 weekday_name     |-> sorted[k].weekday_name,
                 rmssd            |-> sorted[k].rmssd,
                 mean_hr          |-> sorted[k].mean_hr,
                 sdnn             |-> sorted[k].sdnn,
                 difficulty_rank  |-> k,
                 difficulty_label |->
                     difficulty_labels[Len(difficulty_labels) - Len(sorted) + k]]] :
                sorted \in sort_values(workweek_stats, "rmssd", TRUE)}

\* the frames get_workweek_difficulty can return
get_workweek_difficulty(hrv) ==
    LET df       == prepare_temporal_features(hrv)
        workweek == SelectSeq(df, IsWorkday)
        days     == GroupKeys(workweek, "weekday")
        workweek_stats ==
            [k \in 1..Len(days) |->
                LET g == Where(workweek, "weekday", days[k])
                IN  [weekday      |-> days[k],
                     weekday_name |-> weekday_names[days[k] + 1],
                     rmssd        |-> Mean(Column(g, "rmssd")),
                     mean_hr      |-> Mean(Column(g, "mean_hr")),
                     sdnn         |-> Mean(Column(g, "sdnn"))]]
    IN  IF Len(workweek) = 0 THEN {<<>>}
        ELSE {[k \in 1..Len(sorted) |->
                [weekday          |-> sorted[k].weekday,
                 weekday_name     |-> sorted[k].weekday_name,
                 rmssd            |-> sorted[k].rmssd,
                 mean_hr          |-> sorted[k].mean_hr,
                 sdnn             |-> sorted[k].sdnn,
                 difficulty_rank  |-> k,
                 difficulty_label |-> head(difficulty_labels, Len(sorted))[k]]] :
                sorted \in sort_values(workweek_stats, "rmssd", TRUE)}

\* the summaries create_weekly_summary can return
create_weekly_summary(hrv) ==
    {[hourly_patterns         |-> get_hourly_patterns(hrv),
      best_hrv_hours          |-> best,
      worst_hrv_hours         |-> worst,
      best_hours_per_weekday  |-> get_best_hrv_hours_per_weekday(hrv),
      worst_hours_per_weekday |-> get_worst_hrv_hours_per_weekday(hrv),
      most_stressful_weekdays |-> stressful,
      workweek_difficulty     |-> difficulty] :
        best \in get_best_hrv_hours(hrv), worst \in get_worst_hrv_hours(hrv),
        stressful \in get_most_stressful_weekdays(hrv),
        difficulty \in get_workweek_difficulty(hrv)}

(***************************************************************************)
(* compute_hrv_for_range: the range bucketizer                             *)
(***************************************************************************)
_RANGE_CONFIG ==
    ("1d"  :> [days |-> 1,   freq |-> "h",     label_fmt |-> "%Y-%m-%d %H:00"]) @@
    ("7d"  :> [days |-> 7,   freq |-> "D",     label_fmt |-> "%Y-%m-%d"]) @@
    ("30d" :> [days |-> 30,  freq |-> "W-SUN", label_fmt |-> "Week of %Y-%m-%d"]) @@
    ("6m"  :> [days |-> 180, freq |-> "MS",    label_fmt |-> "%Y-%m"])

_HRV_COLS == <<"rmssd", "sdnn", "mean_hr", "lf_hf_ratio">>

_safe_float(val) == IF IsNaN(val) THEN None ELSE val

\* the label pandas gives the bin of instant t: the start of its hour of
\* elapsed time, or the local midnight that starts its day or month, and for
\* W-SUN the local midnight of the Sunday that ends its Monday-to-Sunday week
BinLabel(t, freq) ==
    CASE freq = "h"     -> t - (t % 60)
      [] freq = "D"     -> Localize(date(t) * MinutesPerDay)
      [] freq = "W-SUN" -> Localize((date(t) + (6 - dayofweek(t))) * MinutesPerDay)
      [] freq = "MS"    -> Localize(DaysBeforeMonth(MonthOfDay(date(t))) * MinutesPerDay)

\* the label after label l: an hour later, or the next local midnight in step
NextLabel(l, freq) ==
    CASE freq = "h"     -> l + 60
      [] freq = "D"     -> Localize((date(l) + 1) * MinutesPerDay)
      [] freq = "W-SUN" -> Localize((date(l) + 7) * MinutesPerDay)
      [] freq = "MS"    -> Localize((date(l) + MonthLengths[MonthOfDay(date(l))])
                                        * MinutesPerDay)

RECURSIVE Labels(_, _, _)
Labels(from, to, freq) ==
    IF from > to THEN <<>> ELSE <<from>> \o Labels(NextLabel(from, freq), to, freq)

\* df_numeric.resample(freq).mean(): one row per bin from the first to the last
\* record, a bin without a value for a column holding NaN there
resample_mean(df, freq) ==
    LET labels == Labels(BinLabel(df[1].timestamp, freq),
                         BinLabel(df[Len(df)].timestamp, freq), freq)
    IN  [k \in 1..Len(labels) |->
            LET bin == SelectSeq(df, LAMBDA r : BinLabel(r.timestamp, freq) = labels[k])
            IN  [timestamp   |-> labels[k],
                 rmssd       |-> Mean(Column(bin, "rmssd")),
                 sdnn        |-> Mean(Column(bin, "sdnn")),
                 mean_hr     |-> Mean(Column(bin, "mean_hr")),
                 lf_hf_ratio |-> Mean(Column(bin, "lf_hf_ratio"))]]

\* DataFrame.dropna(how="any")
dropna_any(rows) ==
    SelectSeq(rows, LAMBDA r : \A c \in 1..Len(_HRV_COLS) : ~IsNaN(r[_HRV_COLS[c]]))

\* DataFrame.dropna(how="all")
dropna_all(rows) ==
    SelectSeq(rows, LAMBDA r : \E c \in 1..Len(_HRV_COLS) : ~IsNaN(r[_HRV_COLS[c]]))

\* Timestamp.strftime: the zero-padded fields of the format, in its order (the
\* text between them is the same for every label of a format)
strftime(t, label_fmt) ==
    LET ymd == YMD(date(t))
    IN  CASE label_fmt = "%Y-%m-%d %H:00"   -> <<ymd[1], ymd[2], ymd[3], hour(t)>>
          [] label_fmt = "%Y-%m-%d"         -> ymd
          [] label_fmt = "Week of %Y-%m-%d" -> ymd
          [] label_fmt = "%Y-%m"            -> <<ymd[1], ymd[2]>>

\* step 4
Aggregate(hrv, freq) == dropna_all(resample_mean(hrv, freq))

\* step 5
TimeSeries(agg_df, label_fmt) ==
    [k \in 1..Len(agg_df) |->
        [bucket      |-> strftime(agg_df[k].timestamp, label_fmt),
         rmssd       |-> _safe_float(agg_df[k].rmssd),
         sdnn        |-> _safe_float(agg_df[k].sdnn),
         mean_hr     |-> _safe_float(agg_df[k].mean_hr),
         lf_hf_ratio |-> _safe_float(agg_df[k].lf_hf_ratio)]]

\* the summary as the flat mean over the feature records
Summary_flat(agg_df) ==
    [rmssd_mean       |-> _safe_float(Mean(Column(df_hrv, "rmssd"))),
     sdnn_mean        |-> _safe_float(Mean(Column(df_hrv, "sdnn"))),
     mean_hr          |-> _safe_float(Mean(Column(df_hrv, "mean_hr"))),
     lf_hf_ratio_mean |-> _safe_float(Mean(Column(df_hrv, "lf_hf_ratio")))]

\* step 6
Summary(agg_df) ==
    [rmssd_mean       |-> _safe_float(Mean(Column(agg_df, "rmssd"))),
     sdnn_mean        |-> _safe_float(Mean(Column(agg_df, "sdnn"))),
     mean_hr          |-> _safe_float(Mean(Column(agg_df, "mean_hr"))),
     lf_hf_ratio_mean |-> _safe_float(Mean(Column(agg_df, "lf_hf_ratio")))]

\* patterns for every range with a full day of data
WithPatterns_from_one_day(range) == _RANGE_CONFIG[range].days >= 1

\* step 7: the ranges that get patterns
WithPatterns(range) == range \in {"7d", "30d", "6m"}

\* patterns = None
NoPatterns == [none |-> TRUE]

(***************************************************************************)
(* The request: state and steps                                            *)
(***************************************************************************)
MaxSamples == 2

MaxFailures == 1

\* the instants around which the samples of a request lie: an hour edge inside a
\* day (Wed 3 June 10:00), a day and week edge inside a month (Sun 7 / Mon 8 June),
\* a day and month edge inside a week (Tue 30 June / Wed 1 July) and the end of
\* daylight time (Sun 1 November, 01:59 EDT / 01:00 EST)
Anchors == {At(6, 3, 10, 0), At(6, 8, 0, 0), At(7, 1, 0, 0), FallBack}

Offsets == {-25, 7, 8}

Bpms == {NaN, Num(0), Num(60), Num(100)}

\* the sample sequences the data access may return: ascending by timestamp
Samples ==
    UNION {{[k \in 1..n |-> [timestamp |-> a + o[k], bpm |-> b[k]]] :
               a \in Anchors,
               o \in {x \in [1..n -> Offsets] : \A k \in 1..(n - 1) : x[k] <= x[k + 1]},
               b \in [1..n -> Bpms]} : n \in 0..MaxSamples}

NoResponse == [status |-> 0]

\* the query of a route that takes none of the date parameters
NoRequest == [none |-> TRUE]

NotFound == [status |-> 404]

Init ==
    /\ pc = "fetch"
    /\ df_raw = <<>>
    /\ df_windows = <<>>
    /\ df_hrv = <<>>
    /\ failures = <<>>
    /\ response = NoResponse
    /\ request = NoRequest
    /\ current = 0
    /\ days_output = <<>>
    /\ fetches = 0

\* compute_hrv_for_range, steps 1: the fetch, and 404 for no sample
get_heart_rate_data ==
    /\ pc = "fetch"
    /\ \E df \in Samples :
        /\ df_raw' = df
        /\ IF df = <<>>
           THEN pc' = "done" /\ response' = NotFound
           ELSE pc' = "process" /\ response' = response
    /\ UNCHANGED <<df_windows, df_hrv, failures>>
    /\ fetches' = fetches + 1
    /\ UNCHANGED <<request, current, days_output>>

\* step 2: HRVProcessor().process(df_raw), and 404 for no window
HRVProcessor_process ==
    /\ pc = "process"
    /\ df_windows' = process(df_raw)
    /\ IF df_windows' = <<>>
       THEN pc' = "done" /\ response' = NotFound
       ELSE pc' = "extract" /\ response' = response
    /\ UNCHANGED <<df_raw, df_hrv, failures>>
    /\ UNCHANGED <<request, current, days_output, fetches>>

FailureCount == Cardinality({<<k, g>> \in (1..Len(failures)) \X Groups : g \in failures[k]})

\* step 3: one pass of the loop of process_windows, over the next window
process_windows ==
    /\ pc = "extract"
    /\ LET row      == df_windows[Len(df_hrv) + 1]
           ibi_list == row.ibi_ms
       IN  \E raised \in SUBSET Called(ibi_list) :
            /\ FailureCount + Cardinality(raised) <= MaxFailures
            /\ df_hrv' = Append(df_hrv,
                   WithTimestamp(extract_all_features(ibi_list, raised), row.timestamp))
            /\ failures' = Append(failures, raised)
    /\ pc' = IF Len(df_hrv') = Len(df_windows) THEN "extracted" ELSE "extract"
    /\ UNCHANGED <<df_raw, df_windows, response>>
    /\ UNCHANGED <<request, current, days_output, fetches>>

\* process_windows returns df_hrv, and 404 for no record.  Nothing reads the
\* samples and the windows after this step: they leave the state here.
process_windows_return ==
    /\ pc = "extracted"
    /\ IF df_hrv = <<>>
       THEN pc' = "done" /\ response' = NotFound
       ELSE pc' = "analyze" /\ response' = response
    /\ df_raw' = <<>>
    /\ df_windows' = <<>>
    /\ failures' = <<>>
    /\ UNCHANGED df_hrv
    /\ UNCHANGED <<request, current, days_output, fetches>>

\* steps 4 to 7 of compute_hrv_for_range(user_id, range); the ValueError of
\* create_weekly_summary is not caught and ends the request
compute_hrv_for_range ==
    /\ pc = "analyze"
    /\ \E range \in DOMAIN _RANGE_CONFIG :
        LET agg_df == Aggregate(df_hrv, _RANGE_CONFIG[range].freq)
        IN  IF WithPatterns(range) /\ PerWeekdayRaises(df_hrv)
            THEN response' = [status |-> 500, range |-> range, error |-> "ValueError"]
            ELSE \E patterns \in IF WithPatterns(range) THEN create_weekly_summary(df_hrv)
                                  ELSE {NoPatterns} :
                    response' =
                        [status          |-> 200,
                         range           |-> range,
                         summary_metrics |-> Summary(agg_df),
                         time_series     |-> TimeSeries(agg_df,
                                                        _RANGE_CONFIG[range].label_fmt),
                         patterns        |-> patterns]
    /\ pc' = "done"
    /\ UNCHANGED <<df_raw, df_windows, df_hrv, failures>>
    /\ UNCHANGED <<request, current, days_output, fetches>>

Next ==
    \/ get_heart_rate_data
    \/ HRVProcessor_process
    \/ process_windows
    \/ process_windows_return
    \/ compute_hrv_for_range

Spec == Init /\ [][Next]_vars

(***************************************************************************)
(* WeeklyAnalyzer called on its own: a feature frame, then one method      *)
(***************************************************************************)
MaxRecords == 3

\* window starts on Mon 1 June (two hours), Wed 3, Fri 5, Sat 6 and Mon 8 June
RecordTimes ==
    {At(6, 1, 9, 0), At(6, 1, 14, 0), At(6, 3, 9, 0), At(6, 5, 14, 0), At(6, 6, 9, 0),
     At(6, 8, 9, 0)}

\* feature maps of a window: too short for any group, too short for the
\* frequency group, and complete ones
RecordFeatures ==
    {[rmssd |-> NaN, sdnn |-> NaN, mean_hr |-> NaN, lf_hf_ratio |-> NaN, sd1 |-> NaN,
      num_rr_intervals |-> 1, num_removed |-> 0],
     [rmssd |-> Num(20), sdnn |-> Num(30), mean_hr |-> Num(60), lf_hf_ratio |-> NaN,
      sd1 |-> NaN, num_rr_intervals |-> 9, num_removed |-> 0],
     [rmssd |-> Num(35), sdnn |-> Num(40), mean_hr |-> Num(80), lf_hf_ratio |-> Num(1),
      sd1 |-> Num(10), num_rr_intervals |-> 10, num_removed |-> 0],
     [rmssd |-> Num(50), sdnn |-> Num(45), mean_hr |-> Num(72), lf_hf_ratio |-> Num(2),
      sd1 |-> Num(15), num_rr_intervals |-> 15, num_removed |-> 0]}

\* the frames: 1 to MaxRecords records, ascending by timestamp, one per window
Frames ==
    UNION {{[k \in 1..n |-> WithTimestamp(f[k], t[k])] :
               t \in {x \in [1..n -> RecordTimes] : \A k \in 1..(n - 1) : x[k] < x[k + 1]},
               f \in [1..n -> RecordFeatures]} : n \in 1..MaxRecords}

\* six hours of one day (Tue 2 June, 08:00 to 13:00), more than top_n
LongTimes == <<At(6, 2, 8, 0), At(6, 2, 9, 0), At(6, 2, 10, 0), At(6, 2, 11, 0),
               At(6, 2, 12, 0), At(6, 2, 13, 0)>>

\* the frames with one complete record in each of the six hours
LongFrames ==
    {[k \in 1..Len(LongTimes) |-> WithTimestamp(f[k], LongTimes[k])] :
        f \in [1..Len(LongTimes) -> {r \in RecordFeatures : IsFin(r.lf_hf_ratio)}]}

InitAnalyzer ==
    /\ pc = "call"
    /\ df_raw = <<>>
    /\ df_windows = <<>>
    /\ df_hrv \in Frames \cup LongFrames
    /\ failures = <<>>
    /\ response = NoResponse
    /\ request = NoRequest
    /\ current = 0
    /\ days_output = <<>>
    /\ fetches = 0

call_get_most_stressful_weekdays ==
    /\ pc = "call"
    /\ pc' = "returned"
    /\ \E result \in get_most_stressful_weekdays(df_hrv) :
          response' = [method |-> "get_most_stressful_weekdays", raised |-> FALSE,
                       result |-> result]
    /\ UNCHANGED <<df_raw, df_windows, df_hrv, failures>>
    /\ UNCHANGED <<request, current, days_output, fetches>>

call_get_workweek_difficulty ==
    /\ pc = "call"
    /\ pc' = "returned"
    /\ \E result \in get_workweek_difficulty(df_hrv) :
          response' = [method |-> "get_workweek_difficulty", raised |-> FALSE,
                       result |-> result]
    /\ UNCHANGED <<df_raw, df_windows, df_hrv, failures>>
    /\ UNCHANGED <<request, current, days_output, fetches>>

call_get_hourly_patterns ==
    /\ pc = "call"
    /\ pc' = "returned"
    /\ response' = [method |-> "get_hourly_patterns", raised |-> FALSE,
                    result |-> get_hourly_patterns(df_hrv)]
    /\ UNCHANGED <<df_raw, df_windows, df_hrv, failures>>
    /\ UNCHANGED <<request, current, days_output, fetches>>

call_get_best_hrv_hours ==
    /\ pc = "call"
    /\ pc' = "returned"
    /\ \E result \in get_best_hrv_hours(df_hrv) :
          response' = [method |-> "get_best_hrv_hours", raised |-> FALSE, result |-> result]
    /\ UNCHANGED <<df_raw, df_windows, df_hrv, failures>>
    /\ UNCHANGED <<request, current, days_output, fetches>>

call_get_worst_hrv_hours ==
    /\ pc = "call"
    /\ pc' = "returned"
    /\ \E result \in get_worst_hrv_hours(df_hrv) :
          response' = [method |-> "get_worst_hrv_hours", raised |-> FALSE, result |-> result]
    /\ UNCHANGED <<df_raw, df_windows, df_hrv, failures>>
    /\ UNCHANGED <<request, current, days_output, fetches>>

\* the ValueError of int(best_hour) reaches the caller
call_get_best_hrv_hours_per_weekday ==
    /\ pc = "call"
    /\ pc' = "returned"
    /\ response' =
          IF PerWeekdayRaises(df_hrv)
          THEN [method |-> "get_best_hrv_hours_per_weekday", raised |-> TRUE, result |-> <<>>]
          ELSE [method |-> "get_best_hrv_hours_per_weekday", raised |-> FALSE,
                result |-> get_best_hrv_hours_per_weekday(df_hrv)]
    /\ UNCHANGED <<df_raw, df_windows, df_hrv, failures>>
    /\ UNCHANGED <<request, current, days_output, fetches>>

call_get_worst_hrv_hours_per_weekday ==
    /\ pc = "call"
    /\ pc' = "returned"
    /\ response' =
          IF PerWeekdayRaises(df_hrv)
          THEN [method |-> "get_worst_hrv_hours_per_weekday", raised |-> TRUE, result |-> <<>>]
          ELSE [method |-> "get_worst_hrv_hours_per_weekday", raised |-> FALSE,
                result |-> get_worst_hrv_hours_per_weekday(df_hrv)]
    /\ UNCHANGED <<df_raw, df_windows, df_hrv, failures>>
    /\ UNCHANGED <<request, current, days_output, fetches>>

NextAnalyzer ==
    \/ call_get_hourly_patterns
    \/ call_get_best_hrv_hours
    \/ call_get_worst_hrv_hours
    \/ call_get_best_hrv_hours_per_weekday
    \/ call_get_worst_hrv_hours_per_weekday
    \/ call_get_most_stressful_weekdays
    \/ call_get_workweek_difficulty

SpecAnalyzer == InitAnalyzer /\ [][NextAnalyzer]_vars

(***************************************************************************)
(* routes/hrv_day.py: GET /v1/hrv/range, the hours of each day of a range  *)
(* of dates.  A date string is <<year, month, day>>; the datetimes of the  *)
(* handler (range_start, current, next_day) all carry the same tzinfo, so  *)
(* Python adds to them, subtracts and compares them by the wall clock:     *)
(* they are wall-clock minutes here, and Localize gives their instants     *)
(* where pandas compares them with the timestamps of the samples.          *)
(***************************************************************************)
API_KEY == "key"

MaxTotalDays == 366

\* _safe_float of routes/hrv_day.py: NaN becomes None, every other float is kept
_safe_float_hrv_day(val) == IF IsNaN(val) THEN None ELSE val

\* whether strptime(date_str, "%Y-%m-%d") accepts the string (years of the calendar
\* of the model)
ValidDate(date_str) ==
    /\ date_str[1] \in {2026, 2027}
    /\ date_str[2] \in 1..12
    /\ date_str[3] \in 1..MonthLengths[date_str[2]]

\* the local midnight that starts the date (2026 and 2027 have 365 days)
_parse_date(date_str) ==
    ((date_str[1] - 2026) * 365 + DaysBeforeMonth(date_str[2]) + date_str[3] - 1)
        * MinutesPerDay

\* current.strftime("%Y-%m-%d")
DayString(w) ==
    LET d == DayOf(w) % 365
        m == MonthOfDay(d)
    IN  <<2026 + DayOf(w) \div 365, m, d - DaysBeforeMonth(m) + 1>>

\* _hourly_hrv_for_window from df_hrv["hour"] on: one entry per hour of the
\* records, ascending, with the means of the records of the hour
HourlyOf(hrv) ==
    LET hours == SortedSeq({hour(hrv[k].timestamp) : k \in 1..Len(hrv)})
    IN  [i \in 1..Len(hours) |->
            LET block == SelectSeq(hrv, LAMBDA r : hour(r.timestamp) = hours[i])
            IN  [hour        |-> hours[i],
                 rmssd       |-> _safe_float_hrv_day(Mean(Column(block, "rmssd"))),
                 sdnn        |-> _safe_float_hrv_day(Mean(Column(block, "sdnn"))),
                 mean_hr     |-> _safe_float_hrv_day(Mean(Column(block, "mean_hr"))),
                 lf_hf_ratio |-> _safe_float_hrv_day(Mean(Column(block, "lf_hf_ratio")))]]

\* the entry of day current in days_output
DayEntry(day, hourly) ==
    [date            |-> DayString(day),
     hours_available |-> Len(hourly),
     hourly          |-> hourly]

\* the dates of the requests: the first days of June 2026, the days around the
\* end of daylight time, a year later, and two strings that are not dates
RangePairs ==
    ({<<2026, 6, 1>>, <<2026, 6, 2>>, <<2026, 6, 3>>}
        \X {<<2026, 6, 1>>, <<2026, 6, 2>>, <<2026, 6, 3>>})
    \cup ({<<2026, 10, 31>>, <<2026, 11, 1>>, <<2026, 11, 2>>}
            \X {<<2026, 10, 31>>, <<2026, 11, 1>>, <<2026, 11, 2>>})
    \cup {<<<<2026, 6, 3>>, <<2027, 6, 3>>>>, <<<<2026, 6, 3>>, <<2027, 6, 4>>>>,
          <<<<2026, 6, 31>>, <<2026, 6, 2>>>>, <<<<2026, 6, 1>>, <<2026, 2, 30>>>>}

Requests ==
    {[x_api_key |-> k, start_date |-> p[1], end_date |-> p[2]] :
        k \in {API_KEY, "other"}, p \in RangePairs}

\* the samples a user may have: the last minutes of 1 June, the first two hours
\* of 2 June, midnight of 3 June, and the last hour of 1 November (23:20 and
\* 23:40 EST)
Readings ==
    {[timestamp |-> At(6, 1, 23, 50), bpm |-> Num(60)],
     [timestamp |-> At(6, 2, 0, 50), bpm |-> Num(60)],
     [timestamp |-> At(6, 2, 1, 5), bpm |-> Num(100)],
     [timestamp |-> At(6, 3, 0, 0), bpm |-> Num(100)],
     [timestamp |-> At(11, 2, 0, 20), bpm |-> Num(60)],
     [timestamp |-> At(11, 2, 0, 40), bpm |-> Num(100)]}

\* the rows of a user, ORDER BY start_time
Databases ==
    {LET times == SortedSeq({r.timestamp : r \in S})
     IN  [k \in 1..Len(times) |-> CHOOSE r \in S : r.timestamp = times[k]] :
        S \in SUBSET Readings}

range_start == _parse_date(request.start_date)

range_end_inclusive == _parse_date(request.end_date)

total_days == (range_end_inclusive - range_start) \div MinutesPerDay + 1

range_end_exclusive == range_end_inclusive + MinutesPerDay

\* a span of more days than the cap allows, with the cap one day higher
TooLong_from_368(days) == days > MaxTotalDays + 1

TooLong(days) == days > MaxTotalDays

\* the rows of the 24 hours of elapsed time from current on
DayFrame_of_24_hours(df, start, next_day) ==
    SelectSeq(df, LAMBDA r : r.timestamp >= Localize(start)
                               /\ r.timestamp < Localize(start) + MinutesPerDay)

\* df_all[(df_all["timestamp"] >= current) & (df_all["timestamp"] < next_day)]
DayFrame(df, start, next_day) ==
    SelectSeq(df, LAMBDA r : r.timestamp >= Localize(start)
                               /\ r.timestamp < Localize(next_day))

\* the HTTPException that ends the request before the fetch, NoResponse if none
Rejection ==
    IF request.x_api_key # API_KEY THEN [status |-> 403]
    ELSE IF ~ValidDate(request.start_date) \/ ~ValidDate(request.end_date)
    THEN [status |-> 400]
    ELSE IF range_end_inclusive < range_start THEN [status |-> 400]
    ELSE IF TooLong(total_days) THEN [status |-> 400]
    ELSE NoResponse

InitRange ==
    /\ pc = "request"
    /\ request \in Requests
    /\ df_raw = <<>>
    /\ df_windows = <<>>
    /\ df_hrv = <<>>
    /\ failures = <<>>
    /\ response = NoResponse
    /\ current = 0
    /\ days_output = <<>>
    /\ fetches = 0

\* the checks of the key, of the dates and of the span
hrv_by_range_validate ==
    /\ pc = "request"
    /\ pc' = IF Rejection = NoResponse THEN "range_fetch" ELSE "done"
    /\ response' = Rejection
    /\ UNCHANGED <<df_raw, df_windows, df_hrv, failures, request, current, days_output,
                   fetches>>

\* the single fetch (the rows from range_start on), the filter to the range,
\* and 404 when either leaves no row
hrv_by_range_fetch ==
    /\ pc = "range_fetch"
    /\ fetches' = fetches + 1
    /\ \E db \in Databases :
        LET fetched == SelectSeq(db, LAMBDA r : r.timestamp >= Localize(range_start))
            df_all  == SelectSeq(fetched,
                                 LAMBDA r : r.timestamp >= Localize(range_start)
                                            /\ r.timestamp < Localize(range_end_exclusive))
        IN  /\ df_raw' = df_all
            /\ IF df_all = <<>>
               THEN pc' = "done" /\ response' = NotFound /\ current' = current
               ELSE pc' = "days" /\ response' = response /\ current' = range_start
    /\ UNCHANGED <<df_windows, df_hrv, failures, request, days_output>>

\* the head of a pass of the loop over the days: the samples of the day, and
\* _hourly_hrv_for_window up to HRVProcessor().process; a day without a sample
\* gets its entry at once.  (process_windows, above, is the next step.)
hrv_by_range_day ==
    /\ pc = "days"
    /\ current < range_end_exclusive
    /\ LET next_day == current + MinutesPerDay
           df_day   == DayFrame(df_raw, current, next_day)
       IN  IF df_day = <<>>
           THEN /\ days_output' = Append(days_output, DayEntry(current, <<>>))
                /\ current' = next_day
                /\ df_windows' = <<>>
                /\ pc' = "days"
           ELSE /\ df_windows' = process(df_day)
                /\ pc' = IF df_windows' = <<>> THEN "extracted" ELSE "extract"
                /\ UNCHANGED <<days_output, current>>
    /\ df_hrv' = <<>>
    /\ UNCHANGED <<df_raw, failures, response, request, fetches>>

\* the rest of _hourly_hrv_for_window and of the pass: the hour list of the
\* day, its entry, and the step to the next day
_hourly_hrv_for_window_return ==
    /\ pc = "extracted"
    /\ LET hourly == IF df_hrv = <<>> THEN <<>> ELSE HourlyOf(df_hrv)
       IN  days_output' = Append(days_output, DayEntry(current, hourly))
    /\ current' = current + MinutesPerDay
    /\ pc' = "days"
    /\ df_windows' = <<>>
    /\ df_hrv' = <<>>
    /\ UNCHANGED <<df_raw, failures, response, request, fetches>>

\* the loop is over: days_with_data and the response
hrv_by_range_return ==
    /\ pc = "days"
    /\ ~(current < range_end_exclusive)
    /\ pc' = "done"
    /\ response' =
          [status         |-> 200,
           start_date     |-> request.start_date,
           end_date       |-> request.end_date,
           total_days     |-> total_days,
           days_with_data |->
               Cardinality({d \in 1..Len(days_output) :
                               days_output[d].hours_available > 0}),
           days           |-> days_output]
    /\ UNCHANGED <<df_raw, df_windows, df_hrv, failures, request, current, days_output,
                   fetches>>

NextRange ==
    \/ hrv_by_range_validate
    \/ hrv_by_range_fetch
    \/ hrv_by_range_day
    \/ process_windows
    \/ _hourly_hrv_for_window_return
    \/ hrv_by_range_return

SpecRange == InitRange /\ [][NextRange]_vars

(***************************************************************************)
(* Properties of the weekday rankings                                      *)
(***************************************************************************)
\* the weekdays (Monday = 0) on which the frame has a record
DaysWithData == {(3 + DayOf(Wall(df_hrv[i].timestamp))) % 7 : i \in 1..Len(df_hrv)}

\* the mean RMSSD of the frame's records of weekday d, missing values skipped
MeanRmssdOn(d) ==
    LET idx == SortedSeq({i \in 1..Len(df_hrv) : (3 + DayOf(Wall(df_hrv[i].timestamp))) % 7 = d})
    IN  Mean([k \in 1..Len(idx) |-> df_hrv[idx[k]].rmssd])

\* no entry of the ranking has a mean RMSSD below that of an earlier entry
AscendingByRmssd(out) ==
    \A i, j \in 1..Len(out) :
        (i < j /\ ~IsNaN(out[i].rmssd) /\ ~IsNaN(out[j].rmssd))
            => ~FLess(out[j].rmssd, out[i].rmssd)

\* C9: get_most_stressful_weekdays emits one entry per weekday that has data,
\* each carrying that weekday's mean RMSSD, in ascending order of that mean;
\* the stress_rank values are a permutation of 1..k, and a weekday with a lower
\* mean RMSSD never has a higher rank number than one with a higher mean.
C9_StressRanks ==
    (pc = "returned" /\ response.method = "get_most_stressful_weekdays") =>
        LET out == response.result
            k   == Cardinality(DaysWithData)
        IN  /\ Len(out) = k
            /\ {out[i].weekday : i \in 1..k} = DaysWithData
            /\ \A i \in 1..k : out[i].rmssd = MeanRmssdOn(out[i].weekday)
            /\ AscendingByRmssd(out)
            /\ {out[i].stress_rank : i \in 1..k} = 1..k
            /\ \A i, j \in 1..k :
                  (/\ ~IsNaN(out[i].rmssd)
                   /\ ~IsNaN(out[j].rmssd)
                   /\ FLess(out[i].rmssd, out[j].rmssd))
                      => out[i].stress_rank < out[j].stress_rank

\* three weekdays with three different mean RMSSD values, ranked in an order
\* that is not the calendar order of the weekdays
C9_Witness ==
    /\ pc = "returned"
    /\ response.method = "get_most_stressful_weekdays"
    /\ Len(response.result) = 3
    /\ FLess(response.result[1].rmssd, response.result[2].rmssd)
    /\ FLess(response.result[2].rmssd, response.result[3].rmssd)
    /\ response.result[1].weekday > response.result[2].weekday
    /\ response.result[1].stress_rank = 1

\* the workdays (Monday to Friday) on which the frame has a record
WorkdaysWithData == {d \in DaysWithData : d < 5}

\* C10: get_workweek_difficulty considers only Monday to Friday; for the k
\* workdays that have data it emits k entries in ascending order of mean
\* RMSSD, with difficulty_rank 1..k and the first k labels of Hardest, Hard,
\* Medium, Easy, Easiest in that order; without workday data the list is empty.
C10_WorkweekDifficulty ==
    (pc = "returned" /\ response.method = "get_workweek_difficulty") =>
        LET out == response.result
            k   == Cardinality(WorkdaysWithData)
        IN  /\ Len(out) = k
            /\ {out[i].weekday : i \in 1..k} = WorkdaysWithData
            /\ \A i \in 1..k : out[i].rmssd = MeanRmssdOn(out[i].weekday)
            /\ AscendingByRmssd(out)
            /\ \A i \in 1..k :
                  /\ out[i].difficulty_rank = i
                  /\ out[i].difficulty_label =
                        <<"Hardest", "Hard", "Medium", "Easy", "Easiest">>[i]
            /\ (WorkdaysWithData = {}) => out = <<>>

\* only Monday, Wednesday and Friday have data: the labels are Hardest, Hard,
\* Medium
C10_Witness ==
    /\ pc = "returned"
    /\ response.method = "get_workweek_difficulty"
    /\ DaysWithData = {0, 2, 4}
    /\ [i \in 1..3 |-> response.result[i].difficulty_label]
          = <<"Hardest", "Hard", "Medium">>
    /\ response.result[1].weekday # 0

(***************************************************************************)
(* Properties of the range query                                           *)
(***************************************************************************)
Returned200 == pc = "done" /\ response.status = 200

\* a finite number or an explicit null
FiniteOrNull(v) == v = None \/ IsFin(v)

\* every field of every row of a list of records is a finite number or null
RowsFiniteOrNull(rows, cols) ==
    \A k \in 1..Len(rows) : \A c \in cols : FiniteOrNull(rows[k][c])

\* C1: every numeric field the range query emits (the metric values of
\* time_series, the summary_metrics and the values inside patterns) is a
\* finite number or an explicit null, whatever the samples were, a sample with
\* bpm = 0 included: no infinity and no NaN is in the emitted output.
C1_EmittedFiniteOrNull ==
    Returned200 =>
        /\ RowsFiniteOrNull(response.time_series,
                            {"rmssd", "sdnn", "mean_hr", "lf_hf_ratio"})
        /\ \A c \in {"rmssd_mean", "sdnn_mean", "mean_hr", "lf_hf_ratio_mean"} :
              FiniteOrNull(response.summary_metrics[c])
        /\ (response.range # "1d") =>
              /\ RowsFiniteOrNull(response.patterns.hourly_patterns,
                     {"rmssd_mean", "rmssd_std", "rmssd_min", "rmssd_max", "sdnn_mean",
                      "sdnn_std", "mean_hr_mean", "mean_hr_std", "lf_hf_ratio_mean",
                      "lf_hf_ratio_std"})
              /\ RowsFiniteOrNull(response.patterns.best_hrv_hours, {"avg_rmssd"})
              /\ RowsFiniteOrNull(response.patterns.worst_hrv_hours, {"avg_rmssd"})
              /\ RowsFiniteOrNull(response.patterns.most_stressful_weekdays,
                                  {"rmssd", "mean_hr", "lf_hf_ratio"})
              /\ RowsFiniteOrNull(response.patterns.workweek_difficulty,
                                  {"rmssd", "mean_hr", "sdnn"})

\* C5: the request never ends in an unhandled exception for want of data: with
\* no sample, no window, no record, or records whose tracked metrics are all
\* missing, it ends in the not-found outcome or in a result.
C5_NeverRaises == pc = "done" => response.status \in {200, 404}

\* C7: no window in the output of resample_to_windows has an empty list of
\* inter-beat intervals, so none reaches the feature computation.
C7_NoEmptyWindow ==
    \A k \in 1..Len(df_windows) : df_windows[k].ibi_ms # <<>>

\* one tuple of label fields sorts before another: the first field that
\* differs is smaller
LabelBefore(a, b) ==
    \E i \in 1..Len(a) :
        /\ a[i] < b[i]
        /\ \A j \in 1..(i - 1) : a[j] = b[j]

\* C8: for every resolution the bucket labels of the emitted time_series are
\* strictly increasing: no two buckets carry the same label and no bucket has
\* a label that sorts before that of an earlier bucket.
C8_LabelsStrictlyIncreasing ==
    Returned200 =>
        \A i, j \in 1..Len(response.time_series) :
            i < j => LabelBefore(response.time_series[i].bucket,
                                 response.time_series[j].bucket)

\* the mean of the values that are not null, and null when there is none
MeanOfPresent(values) ==
    LET present == SelectSeq(values, LAMBDA v : v # None /\ ~IsNaN(v))
    IN  IF present = <<>> THEN None ELSE Mean(present)

\* the summary metric that goes with a tracked metric
SummaryOf ==
    [rmssd |-> "rmssd_mean", sdnn |-> "sdnn_mean", mean_hr |-> "mean_hr",
     lf_hf_ratio |-> "lf_hf_ratio_mean"]

\* C2: each summary metric is the mean, over the emitted buckets that have a
\* value for the metric, of the bucket means of that metric, and null when no
\* emitted bucket has a value for it (it is not the flat mean over the records).
C2_SummaryOfBucketMeans ==
    Returned200 =>
        \A m \in DOMAIN SummaryOf :
            response.summary_metrics[SummaryOf[m]]
                = MeanOfPresent([k \in 1..Len(response.time_series) |->
                                    response.time_series[k][m]])

\* a result whose RMSSD summary is a number other than the flat mean of the
\* RMSSD of the records
C2_Witness ==
    /\ Returned200
    /\ Len(response.time_series) >= 2
    /\ IsFin(response.summary_metrics.rmssd_mean)
    /\ response.summary_metrics.rmssd_mean # MeanOfPresent(Column(df_hrv, "rmssd"))

\* instant t lies in the span of the bucket that starts (for weeks: ends) with
\* the label instant l: the same hour of elapsed time, the same local date, the
\* Monday-to-Sunday week ending on l's date, the same month
InSpan(t, l, range) ==
    CASE range = "1d"  -> l <= t /\ t < l + 60
      [] range = "7d"  -> DayOf(Wall(t)) = DayOf(Wall(l))
      [] range = "30d" -> DayOf(Wall(l)) - 6 <= DayOf(Wall(t)) /\ DayOf(Wall(t)) <= DayOf(Wall(l))
      [] range = "6m"  -> MonthOfDay(DayOf(Wall(t))) = MonthOfDay(DayOf(Wall(l)))

\* the values of metric m of the records in the span of label l, in record order
ValuesInSpan(l, range, m) ==
    LET idx == SortedSeq({i \in 1..Len(df_hrv) : InSpan(df_hrv[i].timestamp, l, range)})
    IN  [k \in 1..Len(idx) |-> df_hrv[idx[k]][m]]

\* the instants that label the emitted buckets
BucketStarts == Column(Aggregate(df_hrv, _RANGE_CONFIG[response.range].freq), "timestamp")

\* a record with a value for at least one tracked metric
Contributes(r) == \E m \in DOMAIN SummaryOf : ~IsNaN(r[m])

\* C3: every record lies in the span of at most one emitted bucket, and of
\* exactly one when it has a value for a tracked metric; each emitted value is
\* the mean over the records of the bucket that have a value for the metric,
\* and null when there is none; no emitted bucket has all four metrics null.
C3_Buckets ==
    Returned200 =>
        LET ts     == response.time_series
            starts == BucketStarts
            range  == response.range
        IN  /\ Len(ts) = Len(starts)
            /\ \A i \in 1..Len(df_hrv) :
                  LET in == {k \in 1..Len(ts) : InSpan(df_hrv[i].timestamp, starts[k], range)}
                  IN  /\ Cardinality(in) <= 1
                      /\ Contributes(df_hrv[i]) => Cardinality(in) = 1
            /\ \A k \in 1..Len(ts) :
                  /\ \A m \in DOMAIN SummaryOf :
                        ts[k][m] = MeanOfPresent(ValuesInSpan(starts[k], range, m))
                  /\ \E m \in DOMAIN SummaryOf : ts[k][m] # None

\* hourly buckets of which one holds two records with different RMSSD, while a
\* record without any value lies in no emitted bucket
C3_Witness ==
    /\ Returned200
    /\ response.range = "1d"
    /\ \E k \in 1..Len(response.time_series) :
          \E i, j \in 1..Len(df_hrv) :
                /\ InSpan(df_hrv[i].timestamp, BucketStarts[k], "1d")
                /\ InSpan(df_hrv[j].timestamp, BucketStarts[k], "1d")
                /\ IsFin(df_hrv[i].rmssd) /\ IsFin(df_hrv[j].rmssd)
                /\ df_hrv[i].rmssd # df_hrv[j].rmssd
    /\ \E i \in 1..Len(df_hrv) :
          /\ ~Contributes(df_hrv[i])
          /\ \A k \in 1..Len(response.time_series) :
                ~InSpan(df_hrv[i].timestamp, BucketStarts[k], "1d")

\* C4: the result of a 1d query carries no patterns structure (patterns is
\* None: neither an empty structure nor one of null values); the result of a
\* 7d, 30d or 6m query carries the weekly summary of the whole set of feature
\* records, whatever buckets they fell into.
C4_PatternsOnlyForMultiDay ==
    Returned200 =>
        /\ (response.range = "1d") => response.patterns = NoPatterns
        /\ (response.range \in {"7d", "30d", "6m"}) =>
              /\ response.patterns \in create_weekly_summary(df_hrv)
              /\ {response.patterns.hourly_patterns[k].hour :
                     k \in 1..Len(response.patterns.hourly_patterns)}
                    = {(Wall(df_hrv[i].timestamp) % MinutesPerDay) \div 60 :
                          i \in 1..Len(df_hrv)}
              /\ FSum([k \in 1..Len(response.patterns.hourly_patterns) |->
                          Num(response.patterns.hourly_patterns[k].rmssd_count)])
                    = Num(Cardinality({i \in 1..Len(df_hrv) : ~IsNaN(df_hrv[i].rmssd)}))

\* a 1d result over records of two hours on two dates, without patterns
C4_Witness ==
    /\ Returned200
    /\ response.range = "1d"
    /\ response.patterns = NoPatterns
    /\ Len(response.time_series) >= 2
    /\ \E i, j \in 1..Len(df_hrv) :
          DayOf(Wall(df_hrv[i].timestamp)) # DayOf(Wall(df_hrv[j].timestamp))

\* the fields of each group of features
GroupFields ==
    [time |-> {"rmssd", "sdnn", "mean_hr"}, frequency |-> {"lf_hf_ratio"},
     nonlinear |-> {"sd1"}]

\* C6: process_windows makes one record per window, in window order; a failure
\* of the computation of one group on one window leaves NaN in the fields of
\* that group of that window only, and every other field of every record is
\* what it is without the failure.  (pc = "extracted": the loop is over.)
C6_OneRecordPerWindow ==
    (pc = "extracted") =>
        /\ Len(df_hrv) = Len(df_windows)
        /\ \A k \in 1..Len(df_hrv) :
              LET unfailed == extract_all_features(df_windows[k].ibi_ms, {})
              IN  /\ df_hrv[k].timestamp = df_windows[k].timestamp
                  /\ \A g \in Groups : \A f \in GroupFields[g] :
                        df_hrv[k][f] = IF g \in failures[k] THEN NaN ELSE unfailed[f]
                  /\ df_hrv[k].num_rr_intervals = unfailed.num_rr_intervals

\* the batch is complete after a failure of the frequency group on a window
\* but the last, whose time-domain fields are kept, before windows without one
C6_Witness ==
    /\ pc = "extracted"
    /\ Len(df_hrv) >= 2
    /\ \E k \in 1..(Len(df_hrv) - 1) :
          /\ failures[k] = {"frequency"}
          /\ IsNaN(df_hrv[k].lf_hf_ratio)
          /\ IsFin(df_hrv[k].rmssd)
          /\ IsFin(extract_all_features(df_windows[k].ibi_ms, {}).lf_hf_ratio)
          /\ IsFin(df_hrv[k + 1].lf_hf_ratio)


\* what the library returns for the intervals rr, group by group
LibraryFeatures(rr) ==
    [rmssd       |-> get_time_domain_features(rr).rmssd,
     sdnn        |-> get_time_domain_features(rr).sdnn,
     mean_hr     |-> get_time_domain_features(rr).mean_hr,
     lf_hf_ratio |-> get_frequency_domain_features(rr).lf_hf_ratio,
     sd1         |-> get_poincare_plot_features(rr).sd1]

\* C14: the record of a window with fewer than 2 IBI values has every
\* time-domain metric null (and the other groups too); the record of a window
\* with 2 to 9 values has the time-domain metrics the library computes from
\* the values, finite when the values are, and every frequency-domain and
\* non-linear metric null; the record of a window with exactly 10 values has
\* for all three groups what the library computes from the cleaned values,
\* finite when these are.  (A group whose library call raised is null.)
C14_MinimumSamples ==
    (pc = "extracted") =>
        \A k \in 1..Len(df_windows) :
            LET rr          == df_windows[k].ibi_ms
                n           == Len(rr)
                Null(g)     == \A f \in GroupFields[g] : IsNaN(df_hrv[k][f])
                Computed(g, from) ==
                    /\ g \notin failures[k] =>
                          \A f \in GroupFields[g] : df_hrv[k][f] = LibraryFeatures(from)[f]
                    /\ (g \notin failures[k] /\ \A j \in 1..Len(from) : IsFin(from[j])) =>
                          \A f \in GroupFields[g] : IsFin(df_hrv[k][f])
            IN  /\ n < 2 => \A g \in Groups : Null(g)
                /\ (2 <= n /\ n <= 9) =>
                      /\ Computed("time", rr)
                      /\ Null("frequency")
                      /\ Null("nonlinear")
                /\ n = 10 => \A g \in Groups : Computed(g, clean_rr_intervals(rr))

\* a batch with a window of exactly 10 finite values, whose record has the
\* metrics of all three groups, and a window of exactly 9 finite values, whose
\* record has the time-domain metrics only
C14_Witness ==
    /\ pc = "extracted"
    /\ \E k \in 1..Len(df_windows) :
          /\ Len(df_windows[k].ibi_ms) = 10
          /\ IsFin(df_hrv[k].rmssd)
          /\ IsFin(df_hrv[k].lf_hf_ratio)
          /\ IsFin(df_hrv[k].sd1)
    /\ \E k \in 1..Len(df_windows) :
          /\ Len(df_windows[k].ibi_ms) = 9
          /\ \A j \in 1..9 : IsFin(df_windows[k].ibi_ms[j])
          /\ IsFin(df_hrv[k].rmssd)
          /\ IsNaN(df_hrv[k].lf_hf_ratio)
          /\ IsNaN(df_hrv[k].sd1)


(***************************************************************************)
(* Properties of the hour rankings and of the groups of the analyzer       *)
(***************************************************************************)
\* the weekday (Monday = 0) and the local hour of record i of the frame
WeekdayOfRecord(i) == (3 + DayOf(Wall(df_hrv[i].timestamp))) % 7

HourOfRecord(i) == (Wall(df_hrv[i].timestamp) % MinutesPerDay) \div 60

\* the records of hour h, and of hour h on weekday d, that have an RMSSD value
RmssdRecordsAt(h) ==
    {i \in 1..Len(df_hrv) : HourOfRecord(i) = h /\ ~IsNaN(df_hrv[i].rmssd)}

RmssdRecordsOn(d) ==
    {i \in 1..Len(df_hrv) : WeekdayOfRecord(i) = d /\ ~IsNaN(df_hrv[i].rmssd)}

\* C11: every group (hour or weekday) that a pattern output of the analyzer
\* holds has at least one contributing record with a non-missing value; a
\* group without one is absent, never present with null or NaN values.
C11_NoEmptyGroups ==
    (pc = "returned" /\ ~response.raised) =>
        LET out == response.result
        IN  /\ response.method = "get_hourly_patterns" =>
                  \A k \in 1..Len(out) :
                      \E i \in 1..Len(df_hrv) :
                          HourOfRecord(i) = out[k].hour /\ Contributes(df_hrv[i])
            /\ response.method \in {"get_best_hrv_hours", "get_worst_hrv_hours"} =>
                  \A k \in 1..Len(out) : RmssdRecordsAt(out[k].hour) # {}
            /\ response.method \in {"get_most_stressful_weekdays", "get_workweek_difficulty"} =>
                  \A k \in 1..Len(out) : RmssdRecordsOn(out[k].weekday) # {}

\* the hours in which the frame has a record
HoursWithData == {HourOfRecord(i) : i \in 1..Len(df_hrv)}

\* the mean RMSSD of the frame's records of hour h, missing values skipped
MeanRmssdAt(h) ==
    LET idx == SortedSeq({i \in 1..Len(df_hrv) : HourOfRecord(i) = h})
    IN  Mean([k \in 1..Len(idx) |-> df_hrv[idx[k]].rmssd])

\* value a ranks strictly ahead of value b: higher among the best, lower
\* among the worst
Ahead(a, b, method) ==
    /\ ~IsNaN(a)
    /\ ~IsNaN(b)
    /\ IF method = "get_worst_hrv_hours" THEN FLess(a, b) ELSE FLess(b, a)

HoursWithDataOn(d) ==
    {HourOfRecord(i) : i \in {j \in 1..Len(df_hrv) : WeekdayOfRecord(j) = d}}

\* the mean RMSSD of the frame's records of hour h on weekday d
MeanRmssdOnAt(d, h) ==
    LET idx == SortedSeq({i \in 1..Len(df_hrv) :
                             WeekdayOfRecord(i) = d /\ HourOfRecord(i) = h})
    IN  Mean([k \in 1..Len(idx) |-> df_hrv[idx[k]].rmssd])

\* C16: get_best_hrv_hours_per_weekday (get_worst_hrv_hours_per_weekday)
\* returns a map with one entry per weekday that has data and none for the
\* others; the entry holds the hour whose mean RMSSD within the weekday is
\* maximal (minimal), the lowest such hour when several tie, and that mean.
C16_BestHourPerWeekday ==
    (/\ pc = "returned"
     /\ response.method \in {"get_best_hrv_hours_per_weekday",
                             "get_worst_hrv_hours_per_weekday"}) =>
        /\ ~response.raised
        /\ DOMAIN response.result = {weekday_names[d + 1] : d \in DaysWithData}
        /\ \A d \in DaysWithData :
              LET e == response.result[weekday_names[d + 1]]
                  m == IF response.method = "get_worst_hrv_hours_per_weekday"
                       THEN "get_worst_hrv_hours" ELSE "get_best_hrv_hours"
              IN  /\ e.hour \in HoursWithDataOn(d)
                  /\ e.avg_rmssd = MeanRmssdOnAt(d, e.hour)
                  /\ \A h \in HoursWithDataOn(d) :
                        /\ ~Ahead(MeanRmssdOnAt(d, h), e.avg_rmssd, m)
                        /\ MeanRmssdOnAt(d, h) = e.avg_rmssd => e.hour <= h


(***************************************************************************)
(* Properties of the hours of each day of a range                          *)
(***************************************************************************)
\* the request is answered with the days of its range
RangeReturned == pc = "done" /\ response.status = 200

\* the day number of a date string
DayNumber(date_str) ==
    (date_str[1] - 2026) * 365 + DaysBeforeMonth(date_str[2]) + date_str[3] - 1

\* the samples of the range whose timestamp shows calendar day d
SamplesOn(d) == SelectSeq(df_raw, LAMBDA r : DayOf(Wall(r.timestamp)) = d)

\* the windows of the samples of calendar day d
WindowsOn(d) == IF SamplesOn(d) = <<>> THEN <<>> ELSE process(SamplesOn(d))

\* the number of windows of the days of the range before calendar day d
RECURSIVE WindowsBefore(_, _)
WindowsBefore(days, d) ==
    IF days = {} THEN 0
    ELSE LET x == CHOOSE y \in days : TRUE
         IN  (IF x < d THEN Len(WindowsOn(x)) ELSE 0) + WindowsBefore(days \ {x}, d)

\* the feature records of calendar day d: failures holds, window after window
\* of the whole range, the library calls that raised
RecordsOn(d) ==
    LET windows == WindowsOn(d)
        before  == WindowsBefore({DayOf(Wall(df_raw[n].timestamp)) : n \in 1..Len(df_raw)}, d)
    IN  [k \in 1..Len(windows) |->
            WithTimestamp(extract_all_features(windows[k].ibi_ms, failures[before + k]),
                          windows[k].timestamp)]

\* C12: the hour list of a day is strictly ascending by hour, its hours lie in
\* 0..23 and none comes twice; each metric of an entry is the mean over the
\* records of that local hour that have a value for the metric; and every
\* entry stands for an hour with at least one contributing record: an hour
\* without one is left out, not emitted with nulls.
C12_HourList ==
    RangeReturned =>
        \A i \in 1..Len(response.days) :
            LET hourly  == response.days[i].hourly
                records == RecordsOn(DayNumber(request.start_date) + i - 1)
                At_(h)  == SelectSeq(records,
                                     LAMBDA r : (Wall(r.timestamp) % MinutesPerDay) \div 60 = h)
            IN  /\ \A k \in 1..Len(hourly) : hourly[k].hour \in 0..23
                /\ \A j, k \in 1..Len(hourly) : j < k => hourly[j].hour < hourly[k].hour
                /\ \A k \in 1..Len(hourly) : \A c \in 1..Len(_HRV_COLS) :
                      LET values == SelectSeq(Column(At_(hourly[k].hour), _HRV_COLS[c]), NotNaN)
                      IN  hourly[k][_HRV_COLS[c]] =
                              IF values = <<>> THEN None
                              ELSE FDivInt(FSum(values), Len(values))
                /\ \A k \in 1..Len(hourly) :
                      \E n \in 1..Len(At_(hourly[k].hour)) :
                          Contributes(At_(hourly[k].hour)[n])

\* C13: the days list has one entry per calendar day from start_date to
\* end_date inclusive, in ascending order, total_days entries in all; the hour
\* list of a day is computed from the samples whose timestamp shows that
\* calendar day and from no other sample; hours_available is the length of the
\* hour list (0 for a day without data); days_with_data is the number of days
\* with hours_available > 0.
C13_DaysOfRange ==
    RangeReturned =>
        LET days  == response.days
            first == DayNumber(request.start_date)
            last  == DayNumber(request.end_date)
        IN  /\ Len(days) = last - first + 1
            /\ response.total_days = Len(days)
            /\ \A i \in 1..Len(days) :
                  /\ days[i].date = DayString((first + i - 1) * MinutesPerDay)
                  /\ days[i].hourly =
                        IF SamplesOn(first + i - 1) = <<>> THEN <<>>
                        ELSE HourlyOf(RecordsOn(first + i - 1))
                  /\ days[i].hours_available = Len(days[i].hourly)
                  /\ SamplesOn(first + i - 1) = <<>> => days[i].hours_available = 0
            /\ \A n \in 1..Len(df_raw) :
                  DayOf(Wall(df_raw[n].timestamp)) \in first..last
            /\ response.days_with_data =
                  Cardinality({i \in 1..Len(days) : days[i].hours_available > 0})

\* 31 October to 2 November: the only samples are those of the last hour of
\* 1 November, the day of 25 hours; the days before and after it are listed
\* with no hour
C13_Witness ==
    /\ RangeReturned
    /\ request.start_date = <<2026, 10, 31>>
    /\ Len(response.days) = 3
    /\ response.days[1].hours_available = 0
    /\ response.days[2].hours_available = 1
    /\ response.days[2].hourly[1].hour = 23
    /\ IsFin(response.days[2].hourly[1].rmssd)
    /\ response.days[3].hours_available = 0
    /\ response.days_with_data = 1

\* the requests that are to be rejected: a wrong key, an end before the
\* start, a span of more than 366 days
ToReject ==
    \/ request.x_api_key # API_KEY
    \/ /\ ValidDate(request.start_date)
       /\ ValidDate(request.end_date)
       /\ \/ DayNumber(request.end_date) < DayNumber(request.start_date)
          \/ DayNumber(request.end_date) - DayNumber(request.start_date) + 1 > 366

\* the passes of the loop over the days that are still to be made
PassesLeft == (range_end_exclusive - current) \div MinutesPerDay

\* a bound on the steps the handler can still take: it is a natural number
\* and every step lowers it (a day has fewer windows than minutes)
StepsLeft ==
    CASE pc = "request"     -> (MaxTotalDays + 1) * MinutesPerDay + 3
      [] pc = "range_fetch" -> (MaxTotalDays + 1) * MinutesPerDay + 2
      [] pc = "days"        -> PassesLeft * MinutesPerDay + 1
      [] pc = "extract"     -> (PassesLeft - 1) * MinutesPerDay + 2
                                   + Len(df_windows) - Len(df_hrv)
      [] pc = "extracted"   -> (PassesLeft - 1) * MinutesPerDay + 2
      [] pc = "done"        -> 0

\* C17: a request with a wrong key ends in 403, and one with an end date
\* before its start date or a span of more than 366 days in 400, without any
\* fetch of data and without any pass of the loop over the days; the data are
\* fetched once at most and the loop makes at most 366 passes; and the handler
\* terminates: it is never stuck before its end, and every step it takes
\* lowers a bound on the steps that are left.
C17_CappedBeforeFetch ==
    /\ [](ToReject =>
            /\ fetches = 0
            /\ days_output = <<>>
            /\ pc \in {"request", "done"}
            /\ pc = "done" =>
                  response.status = IF request.x_api_key # API_KEY THEN 403 ELSE 400)
    /\ [](Len(days_output) <= 366 /\ fetches <= 1)
    /\ [](/\ pc \in {"request", "range_fetch", "days", "extract", "extracted", "done"}
          /\ pc = "extract" => Len(df_hrv) < Len(df_windows)
          /\ pc \in {"days", "extract", "extracted"} =>
                /\ current <= range_end_exclusive
                /\ Len(days_output) = (current - range_start) \div MinutesPerDay
          /\ StepsLeft \in Nat)
    /\ [][StepsLeft' < StepsLeft]_vars

\* a request with the right key and a span of 367 days has ended in 400 and
\* nothing was fetched
C17_Witness ==
    /\ pc = "done"
    /\ response.status = 400
    /\ request.x_api_key = API_KEY
    /\ request.start_date = <<2026, 6, 3>>
    /\ request.end_date = <<2027, 6, 4>>
    /\ fetches = 0
    /\ days_output = <<>>

====
